---- MODULE Spec2Model ----
(***************************************************************************)
(* LobstaListen (src/LobstaListen.py): the start-up sequence of __main__,  *)
(* the two twisted LoopingCall timers (audio, sensor data), the            *)
(* getProcessOutput capture pipelines and the reactor's shutdown trigger.  *)
(*                                                                         *)
(* Time is counted in whole seconds (the data interval, the smallest       *)
(* period of the program, is one second).  The reactor is one thread: a    *)
(* call that blocks for b seconds keeps every other call from running      *)
(* until it returns (busyUntil).                                           *)
(*                                                                         *)
(* Library behaviour the program relies on, as twisted implements it:      *)
(*   LoopingCall.start(interval)  now defaults to True: the function is    *)
(*       called at once, then every interval seconds; when the function    *)
(*       raises, the loop stops running and the failure goes to the        *)
(*       Deferred start() returned (which __main__ discards); when it      *)
(*       returns something that is no Deferred the loop does not wait.     *)
(*   LoopingCall.stop()  asserts that the loop is running.                 *)
(*   getProcessOutput(...)  errortoo is false: the Deferred fails on the   *)
(*       first data the process writes to stderr, and otherwise succeeds   *)
(*       when the process ends, whatever its exit code.                    *)
(*   reactor 'before shutdown' triggers run in the reactor thread, each    *)
(*       under try/except; no timed call runs after them.                  *)
(* The file object is Python 2's (the gps API the program uses is Python   *)
(* 2's): write() of the packed str succeeds or raises IOError, and raises  *)
(* ValueError on a closed file.                                            *)
(***************************************************************************)
EXTENDS Integers, Sequences, FiniteSets, TLC

\* ------------------------------------------------------------------ bounds
\* The clock stops at MaxTime seconds after start-up.
MaxTime == 13
\* At most this many sample writes fail with IOError in one run.
MaxWriteFailures == 1

\* The sampler specification starts the generator in any state up to
\* MaxSample, and in the states around the byte boundaries.
MaxSample == 300

\* ------------------------------------------------------- program constants
\* __dataInterval__
dataInterval == 1
\* the margin of the consistency test of the arguments
safetyMargin == 10

\* ------------------------------------------------------------------ inputs
\* --duration and --interval (whole seconds, positive), around the margin.
Durations == {1, 2}
Intervals == {11, 12, 13, 20}
\* The state the random module may be seeded with.
Seeds == {0, 65535}
\* Exit codes of the /bin/sh pipeline.
ExitCodes == {0, 1}

VARIABLES
    pc,            \* position of __main__ / state of the process
    args,          \* the parsed arguments
    exitStatus,    \* status the process exited with ("none" while it runs)
    now,           \* reactor clock, seconds
    busyUntil,     \* the reactor thread is inside a blocking call until then
    outFile,       \* the name outFile: "unbound", "open", "closed"
    sensorLog,     \* what has been written to the sensor file, 2 bytes each
    rng,           \* state of the random module
    audioLoop,     \* __recordAudioLoop__
    dataLoop,      \* __recordDataLoop__
    pipes,         \* the capture pipelines started, in order
    syslogCount,   \* syslog calls made, by message
    hist,          \* counters of what has happened (observation only)
    shutdownTrace  \* what cleanup did, in order

vars == <<pc, args, exitStatus, now, busyUntil, outFile, sensorLog, rng,
          audioLoop, dataLoop, pipes, syslogCount, hist, shutdownTrace>>

\* ------------------------------------------------------------ pure helpers
\* (variant: the format '<H', low byte first)
packLittle(v) == <<v % 256, v \div 256>>

\* struct.pack('>H', v): two bytes, high byte first.
pack(v) == <<v \div 256, v % 256>>

\* randint(0, 65535) on the generator state s.
randint(s) == s % 65536

\* the generator's next state (a linear congruential step stands for the
\* Mersenne twister: the sequence is a function of the seed).
nextRng(s) == (s * 75 + 74) % 65537

\* (variant: the test without the margin)
ConfigRejectedNoMargin(a) == a.duration >= a.interval

\* (variant: the test written with > for >=)
ConfigRejectedStrict(a) == a.duration + safetyMargin > a.interval

\* args.duration + 10 >= args.interval
ConfigRejected(a) == a.duration + safetyMargin >= a.interval

\* LoopingCall._scheduleFrom: seconds from `when` to the next multiple of the
\* interval counted from the loop's start time.
howLong(when, starttime, interval) ==
    interval - ((when - starttime) % interval)

\* (variant: the loops started with now=False)
startLater == FALSE

\* LoopingCall.start's parameter now, left at its default by both start calls.
startNow == TRUE

NoLoop == [started |-> FALSE, running |-> FALSE, starttime |-> 0,
           interval |-> 0, due |-> 0]

\* A LoopingCall after its function was called and returned (or raised) at
\* time `when`.
afterCall(loop, raised, when) ==
    IF raised
    THEN [loop EXCEPT !.running = FALSE, !.due = 0]
    ELSE [loop EXCEPT !.due = when + howLong(when, loop.starttime, loop.interval)]

\* LoopingCall.stop() on a running loop.
stopped(loop) == [loop EXCEPT !.running = FALSE, !.due = 0]

\* ----------------------------------------------------- the program's functions
\* (variant: the pipeline run with a blocking call, which returns after the
\* capture's duration)
storeAudioBlocking(duration, spawn) ==
    [info    |-> 1,
     spawned |-> (spawn = "ok"),
     raised  |-> (spawn # "ok"),
     blocks  |-> duration]

\* storeAudio(duration, verbose): logs, starts the pipeline and returns None
\* at once; spawn is what reactor.spawnProcess does ("ok", or "raise" when
\* the fork or the pipes cannot be made).
storeAudio(duration, spawn) ==
    [info    |-> 1,
     spawned |-> (spawn = "ok"),
     raised  |-> (spawn # "ok"),
     blocks  |-> 0]

\* (variant: the file reopened with 'w' for every sample, which truncates it)
storeSensorDataRewrite(file, log, reading, outcome) ==
    IF file = "closed"
    THEN [log |-> log, errLog |-> 0, raised |-> TRUE, wrote |-> "closed"]
    ELSE IF outcome = "ioerror"
    THEN [log |-> log, errLog |-> 1, raised |-> FALSE, wrote |-> "ioerror"]
    ELSE [log |-> <<pack(reading)>>, errLog |-> 0, raised |-> FALSE,
          wrote |-> "ok"]

\* (variant: the write without its try/except)
storeSensorDataNoCatch(file, log, reading, outcome) ==
    IF file = "closed"
    THEN [log |-> log, errLog |-> 0, raised |-> TRUE, wrote |-> "closed"]
    ELSE IF outcome = "ioerror"
    THEN [log |-> log, errLog |-> 0, raised |-> TRUE, wrote |-> "ioerror"]
    ELSE [log |-> Append(log, pack(reading)), errLog |-> 0, raised |-> FALSE,
          wrote |-> "ok"]

\* storeSensorData(outFile): one reading, packed, written; IOError is caught
\* and logged, anything else propagates to the LoopingCall.
storeSensorData(file, log, reading, outcome) ==
    IF file = "closed"
    THEN [log |-> log, errLog |-> 0, raised |-> TRUE, wrote |-> "closed"]
    ELSE IF outcome = "ioerror"
    THEN [log |-> log, errLog |-> 1, raised |-> FALSE, wrote |-> "ioerror"]
    ELSE [log |-> Append(log, pack(reading)), errLog |-> 0, raised |-> FALSE,
          wrote |-> "ok"]

\* (variant: cleanup without its outFile.close())
cleanupStepsNoClose == <<"stopAudio", "stopData">>

\* The statements of cleanup after its syslog call, in order.
cleanupSteps == <<"close", "stopAudio", "stopData">>

\* (variant: cleanup registered for the reactor's start-up event)
cleanupEventStartup == "startup"

\* The reactor event cleanup is registered for.
cleanupEvent == "shutdown"

\* Running cleanup's statements on st = [file, audio, data, trace, raised]:
\* a statement that raises ends the function.
RECURSIVE runSteps(_, _)
runSteps(steps, st) ==
    IF steps = <<>> \/ st.raised THEN st
    ELSE LET s == Head(steps)
             st2 ==
               CASE s = "close" ->
                      [st EXCEPT !.file = "closed",
                                 !.trace = Append(@, "close")]
                 [] s = "stopAudio" ->
                      IF st.audio.running
                      THEN [st EXCEPT !.audio = stopped(@),
                                      !.trace = Append(@, "stopAudio")]
                      ELSE [st EXCEPT !.raised = TRUE,
                                      !.trace = Append(@, "stopAudioRaised")]
                 [] s = "stopData" ->
                      IF st.data.running
                      THEN [st EXCEPT !.data = stopped(@),
                                      !.trace = Append(@, "stopData")]
                      ELSE [st EXCEPT !.raised = TRUE,
                                      !.trace = Append(@, "stopDataRaised")]
         IN runSteps(Tail(steps), st2)

\* cleanup(outFile)
cleanup(file, audio, data) ==
    runSteps(cleanupSteps,
             [file |-> file, audio |-> audio, data |-> data,
              trace |-> <<>>, raised |-> FALSE])

\* -------------------------------------------------------------------- state
Configs == [duration : Durations, interval : Intervals]

NoSyslog == [start |-> 0, gpsErr |-> 0, openErr |-> 0, recording |-> 0,
             finished |-> 0, error |-> 0, writeErr |-> 0, closing |-> 0]

NoHist == [audioCalls |-> 0, audioRaised |-> 0, dataCalls |-> 0,
           dataRaised |-> 0, writeAttempts |-> 0, writeFailures |-> 0,
           closedWrites |-> 0, lastWrite |-> "none", stampWrites |-> 0,
           stampFailed |-> FALSE, openFailed |-> FALSE,
           dueAtShutdown |-> FALSE, inFlightAtShutdown |-> 0,
           rejectPrinted |-> FALSE]

Init ==
    /\ pc = "validate"
    /\ args \in Configs
    /\ exitStatus = "none"
    /\ now = 0
    /\ busyUntil = 0
    /\ outFile = "unbound"
    /\ sensorLog = <<>>
    /\ rng \in Seeds
    /\ audioLoop = NoLoop
    /\ dataLoop = NoLoop
    /\ pipes = <<>>
    /\ syslogCount = NoSyslog
    /\ hist = NoHist
    /\ shutdownTrace = <<>>

Free == now >= busyUntil

\* The pipeline p has been running for more than the capture's duration plus
\* the margin of the consistency test (observation only).
Overdue(p) == now - p.start > args.duration + safetyMargin

\* A pipeline just started by storeAudio (once it is no longer alive, exit is
\* its exit code and late tells whether it was overdue when it ended).
newPipe ==
    [start |-> now, alive |-> TRUE, fired |-> FALSE, stderr |-> FALSE,
     exit |-> 0, late |-> FALSE, failLogs |-> 0, okLogs |-> 0,
     attemptsAtStart |-> hist.writeAttempts]

\* A pipeline is in flight from its start until its process has ended.
InFlight(p) == p.alive

\* ------------------------------------------------------------------ start-up
\* The consistency test of the arguments (a rejection is printed, not sent
\* to syslog) and the start message.
Validate ==
    /\ pc = "validate"
    /\ IF ConfigRejected(args)
       THEN /\ pc' = "exited"
            /\ exitStatus' = 1
            /\ hist' = [hist EXCEPT !.rejectPrinted = TRUE]
            /\ UNCHANGED syslogCount
       ELSE /\ pc' = "chdir"
            /\ syslogCount' = [syslogCount EXCEPT !.start = @ + 1]
            /\ UNCHANGED <<exitStatus, hist>>
    /\ UNCHANGED <<args, now, busyUntil, outFile, sensorLog, rng, audioLoop,
                   dataLoop, pipes, shutdownTrace>>

\* chdir(args.outputdir): OSError is not caught.
Chdir ==
    /\ pc = "chdir"
    /\ \E ok \in BOOLEAN :
         IF ok THEN pc' = "gps" /\ UNCHANGED exitStatus
         ELSE pc' = "crashed" /\ exitStatus' = 1
    /\ UNCHANGED <<args, now, busyUntil, outFile, sensorLog, rng, audioLoop,
                   dataLoop, pipes, syslogCount, hist, shutdownTrace>>

\* (variant: the stamp written without its try/except, IOError ending the
\* process)
SaveGpsFatal ==
    /\ pc = "gps"
    /\ \E ok \in BOOLEAN :
         IF ok
         THEN /\ hist' = [hist EXCEPT !.stampWrites = @ + 1]
              /\ pc' = "open"
              /\ UNCHANGED exitStatus
         ELSE /\ hist' = [hist EXCEPT !.stampFailed = TRUE]
              /\ pc' = "crashed"
              /\ exitStatus' = 1
    /\ UNCHANGED <<args, now, busyUntil, outFile, sensorLog, rng, audioLoop,
                   dataLoop, pipes, syslogCount, shutdownTrace>>

\* The session stamp: written once, IOError logged.
SaveGps ==
    /\ pc = "gps"
    /\ \E ok \in BOOLEAN :
         IF ok
         THEN /\ hist' = [hist EXCEPT !.stampWrites = @ + 1]
              /\ UNCHANGED syslogCount
         ELSE /\ hist' = [hist EXCEPT !.stampFailed = TRUE]
              /\ syslogCount' = [syslogCount EXCEPT !.gpsErr = @ + 1]
    /\ pc' = "open"
    /\ UNCHANGED <<args, exitStatus, now, busyUntil, outFile, sensorLog, rng,
                   audioLoop, dataLoop, pipes, shutdownTrace>>

\* open('Sensor-....hex', 'w'): IOError is logged and outFile stays unbound.
OpenSensorFile ==
    /\ pc = "open"
    /\ \E ok \in BOOLEAN :
         IF ok
         THEN /\ outFile' = "open"
              /\ UNCHANGED <<syslogCount, hist>>
         ELSE /\ outFile' = "unbound"
              /\ syslogCount' = [syslogCount EXCEPT !.openErr = @ + 1]
              /\ hist' = [hist EXCEPT !.openFailed = TRUE]
    /\ pc' = "startAudio"
    /\ UNCHANGED <<args, exitStatus, now, busyUntil, sensorLog, rng,
                   audioLoop, dataLoop, pipes, shutdownTrace>>

\* ---------------------------------------------------------- the timed calls
\* One call of storeAudio by the loop `loop` at time now, and what the
\* LoopingCall does with its outcome.
AudioCall(loop) ==
    \E spawn \in {"ok", "raise"} :
      LET r == storeAudio(args.duration, spawn) IN
        /\ pipes' = IF r.spawned THEN Append(pipes, newPipe) ELSE pipes
        /\ syslogCount' = [syslogCount EXCEPT !.recording = @ + r.info]
        /\ hist' = [hist EXCEPT !.audioCalls = @ + 1,
                                !.audioRaised = @ + (IF r.raised THEN 1 ELSE 0)]
        /\ busyUntil' = now + r.blocks
        /\ audioLoop' = afterCall(loop, r.raised, now + r.blocks)

\* One call of storeSensorData by the loop `loop` at time now.
DataCall(loop) ==
    \E outcome \in {"ok", "ioerror"} :
      /\ outcome = "ioerror" =>
           (outFile = "open" /\ hist.writeFailures < MaxWriteFailures)
      /\ LET r == storeSensorData(outFile, sensorLog, randint(rng), outcome) IN
           /\ sensorLog' = r.log
           /\ rng' = nextRng(rng)
           /\ syslogCount' = [syslogCount EXCEPT !.writeErr = @ + r.errLog]
           /\ hist' = [hist EXCEPT
                         !.dataCalls = @ + 1,
                         !.writeAttempts = @ + 1,
                         !.writeFailures = @ + (IF r.wrote = "ioerror" THEN 1 ELSE 0),
                         !.closedWrites = @ + (IF r.wrote = "closed" THEN 1 ELSE 0),
                         !.lastWrite = r.wrote,
                         !.dataRaised = @ + (IF r.raised THEN 1 ELSE 0)]
           /\ dataLoop' = afterCall(loop, r.raised, now)

\* LoopingCall(...).start(interval) at time now: the loop as start() leaves
\* it before the first call.
started(interval) ==
    [started |-> TRUE, running |-> TRUE, starttime |-> now,
     interval |-> interval, due |-> now + howLong(now, now, interval)]

\* __recordAudioLoop__ = LoopingCall(storeAudio, ...); .start(args.interval)
StartAudioLoop ==
    /\ pc = "startAudio"
    /\ Free
    /\ IF startNow
       THEN AudioCall(started(args.interval))
       ELSE /\ audioLoop' = started(args.interval)
            /\ UNCHANGED <<pipes, syslogCount, hist, busyUntil>>
    /\ pc' = "startData"
    /\ UNCHANGED <<args, exitStatus, now, outFile, sensorLog, rng, dataLoop,
                   shutdownTrace>>

\* __recordDataLoop__ = LoopingCall(storeSensorData, outFile): NameError when
\* outFile was never bound; .start(__dataInterval__)
StartDataLoop ==
    /\ pc = "startData"
    /\ Free
    /\ IF outFile = "unbound"
       THEN /\ pc' = "crashed"
            /\ exitStatus' = 1
            /\ UNCHANGED <<sensorLog, rng, syslogCount, hist, dataLoop>>
       ELSE /\ pc' = "register"
            /\ UNCHANGED exitStatus
            /\ IF startNow
               THEN DataCall(started(dataInterval))
               ELSE /\ dataLoop' = started(dataInterval)
                    /\ UNCHANGED <<sensorLog, rng, syslogCount, hist>>
    /\ UNCHANGED <<args, now, busyUntil, outFile, audioLoop, pipes,
                   shutdownTrace>>

\* The reactor runs cleanup: its syslog call, then its statements.
RunCleanup ==
    LET st == cleanup(outFile, audioLoop, dataLoop) IN
      /\ syslogCount' = [syslogCount EXCEPT !.closing = @ + 1]
      /\ outFile' = st.file
      /\ audioLoop' = st.audio
      /\ dataLoop' = st.data
      /\ shutdownTrace' = shutdownTrace \o st.trace

\* reactor.addSystemEventTrigger('before', 'shutdown', cleanup, outFile);
\* reactor.run()
ReactorRun ==
    /\ pc = "register"
    /\ Free
    /\ pc' = "running"
    /\ IF cleanupEvent = "startup"
       THEN RunCleanup
       ELSE UNCHANGED <<syslogCount, outFile, audioLoop, dataLoop, shutdownTrace>>
    /\ UNCHANGED <<args, exitStatus, now, busyUntil, sensorLog, rng, pipes,
                   hist>>

Due(loop) == loop.running /\ loop.due <= now

\* The reactor sleeps until the next timed call is due; a blocking call
\* lets time pass with calls due.
AdvanceTime ==
    /\ now < MaxTime
    /\ pc \in {"startAudio", "startData", "register", "running"}
    /\ \/ ~Free
       \/ pc = "running" /\ ~Due(audioLoop) /\ ~Due(dataLoop)
    /\ now' = now + 1
    /\ UNCHANGED <<pc, args, exitStatus, busyUntil, outFile, sensorLog, rng,
                   audioLoop, dataLoop, pipes, syslogCount, hist,
                   shutdownTrace>>

\* The audio loop's timed call.
AudioTick ==
    /\ pc = "running"
    /\ Free
    /\ Due(audioLoop)
    /\ AudioCall(audioLoop)
    /\ UNCHANGED <<pc, args, exitStatus, now, outFile, sensorLog, rng,
                   dataLoop, shutdownTrace>>

\* The data loop's timed call.
DataTick ==
    /\ pc = "running"
    /\ Free
    /\ Due(dataLoop)
    /\ DataCall(dataLoop)
    /\ UNCHANGED <<pc, args, exitStatus, now, busyUntil, outFile, audioLoop,
                   pipes, shutdownTrace>>

\* ------------------------------------------------------ pipeline completion
\* The pipeline writes to stderr for the first time: getProcessOutput's
\* Deferred fails, and the errback logError logs it.
PipeStderr(i) ==
    /\ pc = "running"
    /\ Free
    /\ pipes[i].alive
    /\ ~pipes[i].fired
    /\ pipes' = [pipes EXCEPT ![i].fired = TRUE, ![i].stderr = TRUE,
                              ![i].failLogs = @ + 1]
    /\ syslogCount' = [syslogCount EXCEPT !.error = @ + 1]
    /\ UNCHANGED <<pc, args, exitStatus, now, busyUntil, outFile, sensorLog,
                   rng, audioLoop, dataLoop, hist, shutdownTrace>>

\* The pipeline's process ends with exit code `code`: unless the Deferred has
\* failed already it succeeds, and the callback logResponse logs it.
PipeExit(i, code) ==
    /\ pc = "running"
    /\ Free
    /\ pipes[i].alive
    /\ IF pipes[i].fired
       THEN /\ pipes' = [pipes EXCEPT ![i].alive = FALSE, ![i].exit = code,
                                      ![i].late = Overdue(pipes[i])]
            /\ UNCHANGED syslogCount
       ELSE /\ pipes' = [pipes EXCEPT ![i].alive = FALSE, ![i].exit = code,
                                      ![i].late = Overdue(pipes[i]),
                                      ![i].fired = TRUE,
                                      ![i].okLogs = @ + 1]
            /\ syslogCount' = [syslogCount EXCEPT !.finished = @ + 1]
    /\ UNCHANGED <<pc, args, exitStatus, now, busyUntil, outFile, sensorLog,
                   rng, audioLoop, dataLoop, hist, shutdownTrace>>

\* (variant: cleanup run on the signal without the reactor being stopped)
ShutdownNoStop ==
    /\ pc = "running"
    /\ Free
    /\ shutdownTrace = <<>>
    /\ hist' = [hist EXCEPT
                  !.dueAtShutdown = Due(dataLoop),
                  !.inFlightAtShutdown =
                      Cardinality({i \in 1..Len(pipes) : InFlight(pipes[i])})]
    /\ RunCleanup
    /\ UNCHANGED <<pc, exitStatus, args, now, busyUntil, sensorLog, rng, pipes>>

\* ------------------------------------------------------------------ shutdown
\* The termination signal stops the reactor: the 'before shutdown' triggers
\* run, then the reactor's loop ends and the process exits.
Shutdown ==
    /\ pc = "running"
    /\ Free
    /\ pc' = "stopped"
    /\ exitStatus' = 0
    /\ hist' = [hist EXCEPT
                  !.dueAtShutdown = Due(dataLoop),
                  !.inFlightAtShutdown =
                      Cardinality({i \in 1..Len(pipes) : InFlight(pipes[i])})]
    /\ IF cleanupEvent = "shutdown"
       THEN RunCleanup
       ELSE UNCHANGED <<syslogCount, outFile, audioLoop, dataLoop, shutdownTrace>>
    /\ UNCHANGED <<args, now, busyUntil, sensorLog, rng, pipes>>

Next ==
    \/ Validate
    \/ Chdir
    \/ SaveGps
    \/ OpenSensorFile
    \/ StartAudioLoop
    \/ StartDataLoop
    \/ ReactorRun
    \/ AdvanceTime
    \/ AudioTick
    \/ DataTick
    \/ \E i \in 1..Len(pipes) : PipeStderr(i)
    \/ \E i \in 1..Len(pipes) : \E code \in ExitCodes : PipeExit(i, code)
    \/ Shutdown

Spec == Init /\ [][Next]_vars

\* ------------------------------------------- the sampler, over many readings
\* Generator states the sampler specification starts from.
PackStates ==
    (0..MaxSample) \cup {32767, 32768, 65279, 65280, 65534, 65535, 65536}

\* The program just before line 168, after a start-up in which nothing
\* failed (duration 2, interval 20), with the generator in any of PackStates.
InitPack ==
    /\ pc = "startData"
    /\ args = [duration |-> 2, interval |-> 20]
    /\ exitStatus = "none"
    /\ now = 0
    /\ busyUntil = 0
    /\ outFile = "open"
    /\ sensorLog = <<>>
    /\ rng \in PackStates
    /\ audioLoop = [started |-> TRUE, running |-> TRUE, starttime |-> 0,
                    interval |-> 20, due |-> 20]
    /\ dataLoop = NoLoop
    /\ pipes = <<[start |-> 0, alive |-> TRUE, fired |-> FALSE,
                  stderr |-> FALSE, exit |-> 0, late |-> FALSE, failLogs |-> 0,
                  okLogs |-> 0, attemptsAtStart |-> 0]>>
    /\ syslogCount = [NoSyslog EXCEPT !.start = 1, !.recording = 1]
    /\ hist = [NoHist EXCEPT !.audioCalls = 1, !.stampWrites = 1]
    /\ shutdownTrace = <<>>

\* The data loop alone: its start, the reactor, its ticks.
NextPack ==
    \/ StartDataLoop
    \/ ReactorRun
    \/ AdvanceTime
    \/ DataTick

SpecPack == InitPack /\ [][NextPack]_vars

\* ==================================================================== claims
NumInFlight == Cardinality({i \in 1..Len(pipes) : InFlight(pipes[i])})

\* Position of the first occurrence of e in the sequence t (0 when absent).
First(t, e) ==
    IF \E i \in 1..Len(t) : t[i] = e
    THEN CHOOSE i \in 1..Len(t) : t[i] = e /\ \A j \in 1..(i - 1) : t[j] # e
    ELSE 0

\* C1: whenever cleanup has closed the sensor file, it had stopped the audio
\* loop and the data loop before the close.
C1_CloseAfterStops ==
    First(shutdownTrace, "close") > 0 =>
        /\ First(shutdownTrace, "stopAudio") > 0
        /\ First(shutdownTrace, "stopAudio") < First(shutdownTrace, "close")
        /\ First(shutdownTrace, "stopData") > 0
        /\ First(shutdownTrace, "stopData") < First(shutdownTrace, "close")

\* C2: storeSensorData never attempts a write on the sensor file after cleanup
\* has closed it, whatever the interleaving of data ticks and shutdown.
C2_NoWriteAfterClose ==
    hist.closedWrites = 0 /\ hist.lastWrite # "closed"

\* C2 witness: shutdown began with a data tick due, cleanup closed the file,
\* and (the audio loop's stop having raised) the data loop was never stopped.
C2_Witness ==
    /\ pc = "stopped"
    /\ outFile = "closed"
    /\ hist.dueAtShutdown
    /\ dataLoop.running
    /\ hist.writeAttempts > 0

\* C3: at most one capture pipeline is in flight at any time.
C3_OnePipelineInFlight == NumInFlight <= 1

\* C4: while the reactor runs the data loop is running, has made one write
\* attempt per data interval since it started and is never late; so a capture
\* in flight for 5 data intervals has seen at least 4 write attempts.
C4_DataCadence ==
    pc = "running" =>
        /\ dataLoop.running
        /\ dataLoop.due - now <= dataInterval
        /\ hist.writeAttempts * dataInterval = dataLoop.due - dataLoop.starttime
        /\ \A i \in 1..Len(pipes) :
             (InFlight(pipes[i]) /\ now - pipes[i].start >= 5 * dataInterval)
                => hist.writeAttempts - pipes[i].attemptsAtStart >= 4

\* C4 witness: a capture in flight for the whole run so far, longer than the
\* audio interval, with the data loop having ticked throughout.
C4_Witness ==
    /\ pc = "running"
    /\ Len(pipes) >= 1
    /\ InFlight(pipes[1])
    /\ now - pipes[1].start > args.interval
    /\ hist.writeAttempts - pipes[1].attemptsAtStart >= 4

\* C5: a configuration with duration + 10 >= interval gets no further than
\* the consistency test: it exits with status 1, no loop started, no pipeline
\* invoked, no file opened; any later position has duration + 10 < interval.
C5_RejectBeforeStart ==
    /\ (args.duration + 10 >= args.interval) =>
          /\ pc \in {"validate", "exited"}
          /\ pc = "exited" => exitStatus = 1
          /\ ~audioLoop.started /\ ~dataLoop.started
          /\ pipes = <<>> /\ hist.audioCalls = 0 /\ hist.dataCalls = 0
          /\ outFile = "unbound" /\ ~hist.openFailed
          /\ hist.stampWrites = 0 /\ ~hist.stampFailed
    /\ pc \notin {"validate", "exited"} => args.duration + 10 < args.interval
    /\ pc = "exited" => args.duration + 10 >= args.interval

\* C5 witness: the boundary configuration duration + 10 = interval, rejected.
C5_Witness ==
    /\ pc = "exited"
    /\ exitStatus = 1
    /\ args.duration + 10 = args.interval

\* C6: when opening the sensor log failed, neither loop has been started and
\* no capture pipeline has been invoked.
C6_OpenFailureStartsNothing ==
    hist.openFailed =>
        /\ ~audioLoop.started /\ ~dataLoop.started
        /\ pipes = <<>> /\ hist.audioCalls = 0

\* C7: every pipeline that ended with a non-zero exit code has exactly one
\* failure log event and no success event.
C7_FailureLoggedOnce ==
    \A i \in 1..Len(pipes) :
        (~pipes[i].alive /\ pipes[i].exit # 0)
            => (pipes[i].failLogs = 1 /\ pipes[i].okLogs = 0)

\* C8: a sample write that fails with IOError makes exactly one syslog call,
\* appends nothing, leaves the file open, and leaves the data loop running
\* with its next tick one data interval later.
C8_WriteFailureContained ==
    [][(hist'.writeAttempts = hist.writeAttempts + 1
            /\ hist'.lastWrite = "ioerror")
        => /\ syslogCount' = [syslogCount EXCEPT !.writeErr = @ + 1]
           /\ sensorLog' = sensorLog
           /\ outFile = "open" /\ outFile' = "open"
           /\ dataLoop'.running
           /\ dataLoop'.due = now + dataInterval
           /\ pc' \in {"register", "running"}]_vars

\* C8 witness: after a failed write a later tick has written again.
C8_Witness ==
    /\ hist.writeFailures = 1
    /\ syslogCount.writeErr = 1
    /\ hist.lastWrite = "ok"
    /\ Len(sensorLog) = hist.writeAttempts - 1
    /\ outFile = "open"

\* C9: while the reactor runs, a loop whose action has raised is still
\* running.
C9_RaiseKeepsLoop ==
    pc = "running" =>
        /\ hist.audioRaised > 0 => audioLoop.running
        /\ hist.dataRaised > 0 => dataLoop.running

\* C10 (as stated): until a full interval has passed since the audio loop was
\* started, storeAudio has not been invoked.
C10_NoAudioBeforeInterval ==
    (audioLoop.started /\ now - audioLoop.starttime < audioLoop.interval)
        => hist.audioCalls = 0

\* C10 (amended): storeAudio is invoked once when the audio loop is started
\* and not again before a full interval has passed: one invocation per
\* interval begun.
C10_FirstAudioAtStart ==
    /\ ~audioLoop.started => hist.audioCalls = 0
    /\ audioLoop.started =>
          /\ hist.audioCalls >= 1
          /\ (now - audioLoop.starttime < audioLoop.interval)
                => hist.audioCalls = 1
          /\ hist.audioCalls <=
                1 + ((now - audioLoop.starttime) \div audioLoop.interval)
    /\ Len(pipes) <= hist.audioCalls

\* C10 witness: duration 2, interval 20, five seconds into the run: one
\* invocation, one pipeline.
C10_Witness ==
    /\ pc = "running"
    /\ args.duration = 2 /\ args.interval = 20
    /\ now = 5
    /\ hist.audioCalls = 1
    /\ Len(pipes) = 1

CloseCount ==
    Cardinality({i \in 1..Len(shutdownTrace) : shutdownTrace[i] = "close"})

\* C12: the sensor file is closed at most once; it is closed exactly when the
\* process has gone through shutdown, and the step that closes it is the
\* shutdown step (cleanup), in which no tick and no pipeline callback runs.
C12_ClosedOnceByCleanup ==
    /\ [](/\ CloseCount <= 1
          /\ (outFile = "closed") <=> (CloseCount = 1)
          /\ (pc = "stopped") <=> (outFile = "closed"))
    /\ [][(outFile' = "closed" /\ outFile # "closed")
            => /\ pc = "running" /\ pc' = "stopped"
               /\ syslogCount'.closing = syslogCount.closing + 1
               /\ hist'.dataCalls = hist.dataCalls
               /\ hist'.audioCalls = hist.audioCalls
               /\ pipes' = pipes]_vars

\* C12 witness: a run with samples written that was shut down, closed once.
C12_Witness ==
    /\ pc = "stopped"
    /\ CloseCount = 1
    /\ Len(sensorLog) >= 2
    /\ Len(pipes) >= 1

\* C13: after shutdown both loops are stopped and neither stop() has raised,
\* whatever state the loops were in when shutdown began.
C13_StopIdempotent ==
    pc = "stopped" =>
        /\ ~audioLoop.running
        /\ ~dataLoop.running
        /\ \A i \in 1..Len(shutdownTrace) :
              shutdownTrace[i] \notin {"stopAudioRaised", "stopDataRaised"}

\* C14: the step that handles the termination signal starts no pipeline, runs
\* no tick and leaves every pipeline as it is (in flight ones stay in flight);
\* after it no storeAudio call, no storeSensorData call and no new pipeline
\* ever happens.
C14_NoTicksAfterSignal ==
    /\ [][(shutdownTrace = <<>> /\ shutdownTrace' # <<>>)
            => /\ pipes' = pipes
               /\ hist'.audioCalls = hist.audioCalls
               /\ hist'.dataCalls = hist.dataCalls
               /\ sensorLog' = sensorLog]_vars
    /\ [][shutdownTrace # <<>>
            => /\ Len(pipes') = Len(pipes)
               /\ hist'.audioCalls = hist.audioCalls
               /\ hist'.dataCalls = hist.dataCalls
               /\ sensorLog' = sensorLog]_vars
    /\ [](shutdownTrace # <<>> =>
            /\ pc = "stopped"
            /\ NumInFlight = hist.inFlightAtShutdown)

\* C14 witness: shutdown with a capture in flight and a data tick due; the
\* capture is still in flight afterwards and the due tick never ran.
C14_Witness ==
    /\ pc = "stopped"
    /\ hist.dueAtShutdown
    /\ hist.inFlightAtShutdown >= 1
    /\ NumInFlight >= 1
    /\ hist.writeAttempts = now

\* Decoding two bytes, high byte first (struct.unpack('>H', b)).
unpackH(b) == b[1] * 256 + b[2]

\* C15: every successful sample write appends, for its reading v in 0..65535,
\* exactly the two bytes v div 256 and v mod 256 in that order, and decoding
\* them high byte first gives v again.
C15_PackRoundTrip ==
    [][(hist'.writeAttempts = hist.writeAttempts + 1 /\ hist'.lastWrite = "ok")
        => LET v == randint(rng)
               b == sensorLog'[Len(sensorLog')]
           IN /\ v \in 0..65535
              /\ Len(b) = 2
              /\ b[1] \in 0..255 /\ b[2] \in 0..255
              /\ b[1] = v \div 256
              /\ b[2] = v % 256
              /\ unpackH(b) = v]_vars

\* C15 witness: the readings 256 and then 19274 (75 * 256 + 74), written as
\* the bytes <<1, 0>> and <<75, 74>>.
C15_Witness ==
    /\ Len(sensorLog) >= 2
    /\ sensorLog[1] = <<1, 0>>
    /\ sensorLog[2] = <<75, 74>>

\* Pipelines that ended with a non-zero exit code.
FailedPipes == {i \in 1..Len(pipes) : ~pipes[i].alive /\ pipes[i].exit # 0}

\* C16: every error outcome has its log event: a rejected configuration its
\* message, a failed stamp write, a failed open and every failed sample write
\* their syslog call, and every failed pipeline and every storeAudio call
\* that raised a logError call.
C16_EveryErrorLogged ==
    /\ pc = "exited" => hist.rejectPrinted
    /\ hist.stampFailed => syslogCount.gpsErr >= 1
    /\ hist.openFailed => syslogCount.openErr >= 1
    /\ syslogCount.writeErr = hist.writeFailures
    /\ \A i \in FailedPipes : pipes[i].failLogs >= 1
    /\ syslogCount.error >= Cardinality(FailedPipes) + hist.audioRaised

\* Every pipeline so far has ended, or can still end, within duration + 10
\* seconds of its start.
AllInTime ==
    \A i \in 1..Len(pipes) :
        IF pipes[i].alive
        THEN now - pipes[i].start <= args.duration + 10
        ELSE ~pipes[i].late

\* C17: once the program has accepted its configuration, as long as every
\* pipeline ends within duration + 10 seconds of its start, at most one
\* pipeline is in flight.
C17_OneInFlightWhenInTime ==
    (pc \notin {"validate", "exited"} /\ AllInTime) => NumInFlight <= 1

\* C17 witness: the first pipeline ended in time, the second audio tick has
\* started another, which is in flight alone.
C17_Witness ==
    /\ args.duration + 10 < args.interval
    /\ AllInTime
    /\ Len(pipes) = 2
    /\ ~pipes[1].alive
    /\ pipes[2].alive

\* C18: a step in which storeAudio is called, a pipeline callback (logResponse
\* or logError) runs or the session stamp is written leaves the sensor log
\* and the file's open/closed status as they are; the log changes only in a
\* step that calls storeSensorData, and the status only at the open and at
\* the shutdown.
C18_OnlyDataTickWrites ==
    [][/\ (\/ hist'.audioCalls # hist.audioCalls
           \/ syslogCount'.finished # syslogCount.finished
           \/ syslogCount'.error # syslogCount.error
           \/ hist'.stampWrites # hist.stampWrites
           \/ hist'.stampFailed # hist.stampFailed)
          => (sensorLog' = sensorLog /\ outFile' = outFile)
       /\ sensorLog' # sensorLog => hist'.dataCalls = hist.dataCalls + 1
       /\ outFile' # outFile =>
             \/ pc = "open" /\ outFile' = "open"
             \/ pc = "running" /\ pc' = "stopped" /\ outFile' = "closed"]_vars

\* C18 witness: the stamp written, two storeAudio calls, a logResponse and a
\* logError call, and the log holding one value per data tick.
C18_Witness ==
    /\ hist.stampWrites = 1
    /\ hist.audioCalls >= 2
    /\ syslogCount.finished >= 1
    /\ syslogCount.error >= 1
    /\ hist.writeFailures = 0
    /\ Len(sensorLog) = hist.dataCalls
    /\ Len(sensorLog) >= 12
    /\ outFile = "open"

\* C19: the stamp is attempted at most once, before either loop is started;
\* a failed stamp write makes one syslog call and the program goes on to
\* open the sensor log (and from there to start the loops).
C19_StampFailureNotFatal ==
    /\ [](/\ hist.stampWrites + (IF hist.stampFailed THEN 1 ELSE 0) <= 1
          /\ hist.stampFailed =>
                (syslogCount.gpsErr = 1 /\ pc \notin {"validate", "chdir", "gps"})
          /\ (audioLoop.started \/ dataLoop.started) =>
                hist.stampWrites + (IF hist.stampFailed THEN 1 ELSE 0) = 1)
    /\ [][(hist'.stampFailed /\ ~hist.stampFailed)
            => /\ pc' = "open"
               /\ exitStatus' = "none"
               /\ syslogCount'.gpsErr = syslogCount.gpsErr + 1]_vars
    /\ [][(hist'.stampFailed # hist.stampFailed
              \/ hist'.stampWrites # hist.stampWrites)
            => /\ ~audioLoop.started /\ ~dataLoop.started
               /\ ~audioLoop'.started /\ ~dataLoop'.started
               /\ pipes' = <<>>]_vars

\* C19 witness: the stamp write failed and the program is running with the
\* sensor log open and both loops running.
C19_Witness ==
    /\ hist.stampFailed
    /\ syslogCount.gpsErr = 1
    /\ pc = "running"
    /\ outFile = "open"
    /\ audioLoop.running /\ dataLoop.running
    /\ Len(sensorLog) >= 1

\* The lifecycle state of spec section 4.4 the process is in: Running from
\* the moment the first task is started (the step Idle -> Running "starts
\* AudioTask and DataTask"); ShuttingDown is passed inside the shutdown step;
\* Failed is a fatal exit.
Lifecycle ==
    CASE pc \in {"validate", "chdir", "gps", "open", "startAudio"} -> "Idle"
      [] pc \in {"startData", "register", "running"} -> "Running"
      [] pc = "stopped" -> "Stopped"
      [] pc \in {"exited", "crashed"} -> "Failed"

\* C20: the lifecycle only moves forward (Idle to Running or to a fatal exit,
\* Running to Stopped), a call of storeAudio or storeSensorData ends in
\* Running, Running is left only by the step that handles the termination
\* request, and nothing changes once Stopped.
C20_LifecycleForward ==
    [][/\ Lifecycle' # Lifecycle =>
             <<Lifecycle, Lifecycle'>> \in
                 {<<"Idle", "Running">>, <<"Running", "Stopped">>,
                  <<"Idle", "Failed">>}
       /\ (hist'.audioCalls # hist.audioCalls
             \/ hist'.dataCalls # hist.dataCalls) => Lifecycle' = "Running"
       /\ (Lifecycle = "Running" /\ Lifecycle' # "Running") =>
             (shutdownTrace = <<>> /\ shutdownTrace' # <<>>)
       /\ Lifecycle = "Stopped" => UNCHANGED vars]_vars

====
